---- MODULE Spec2Model ----
(***************************************************************************)
(* qt_tree_view_example.py: an ItemModel (QStandardItemModel) behind a     *)
(* ColumnFilterProxy behind a DragDropReorderProxy, as MainWindow wires    *)
(* them.  Rows of the item model are abstracted to one content token per   *)
(* row; a QModelIndex is a record (valid, row, column).                    *)
(***************************************************************************)
EXTENDS Integers, Sequences, FiniteSets

VARIABLES
    rows,               \* ItemModel: the top-level rows, one content token each
    _visible_columns,   \* ColumnFilterProxy._visible_columns
    attached,           \* DragDropReorderProxy: setSourceModel has run
    _row_order,         \* DragDropReorderProxy._row_order (a Python list)
    _current_drag_row,  \* <<>> while the attribute does not exist, else <<row>>
    last                \* the last call: its name, arguments, result and pre-state

vars == <<rows, _visible_columns, attached, _row_order, _current_drag_row, last>>

----------------------------------------------------------------------------
(* Bounds of the model *)

MaxRows == 3        \* the item model holds at most this many rows
MaxPayload == 2     \* a drag payload decodes to at most this many rows

(* Program constants *)

ModelColumns == 3   \* ItemModel(0, 3)

Contents == {"a", "b"}

DropActions == {"IgnoreAction", "CopyAction", "MoveAction"}

----------------------------------------------------------------------------
(* Python list operations, 0-based, on TLA+ sequences *)

SeqMin(a, b) == IF a < b THEN a ELSE b

SeqMax(a, b) == IF a > b THEN a ELSE b

range(n) == [i \in 1..n |-> i - 1]

\* list.pop(i): IndexError unless -len <= i < len
ListPop(l, i) ==
    IF i >= Len(l) \/ i < 0 - Len(l)
    THEN [ok |-> FALSE, val |-> 0, rest |-> l]
    ELSE LET j == IF i < 0 THEN i + Len(l) ELSE i
         IN  [ok |-> TRUE,
              val |-> l[j + 1],
              rest |-> SubSeq(l, 1, j) \o SubSeq(l, j + 2, Len(l))]

\* list.insert(i, x): the position is clipped to 0..len
ListInsert(l, i, x) ==
    LET j == IF i < 0 THEN SeqMax(0, i + Len(l)) ELSE SeqMin(i, Len(l))
    IN  SubSeq(l, 1, j) \o <<x>> \o SubSeq(l, j + 1, Len(l))

\* list.index(x): the first position of x, ValueError when absent
ListIndex(l, x) ==
    IF \E k \in 1..Len(l) : l[k] = x
    THEN [found |-> TRUE,
          at |-> (CHOOSE k \in 1..Len(l) :
                      l[k] = x /\ \A m \in 1..(k - 1) : l[m] # x) - 1]
    ELSE [found |-> FALSE, at |-> 0]

----------------------------------------------------------------------------
(* Model indexes *)

InvalidIndex == [valid |-> FALSE, row |-> 0 - 1, column |-> 0 - 1]

createIndex(row, column) == [valid |-> TRUE, row |-> row, column |-> column]

----------------------------------------------------------------------------
(* ColumnFilterProxy *)

MainWindow_visible_columns == {1, 2}

filterAcceptsColumn(source_column) == source_column \in _visible_columns

\* the source columns the filter keeps, in ascending order
AcceptedColumns == {c \in 0..(ModelColumns - 1) : filterAcceptsColumn(c)}

\* ColumnFilterProxy.rowCount()/columnCount(): what the reorder proxy sees
sourceRowCount == Len(rows)

sourceColumnCount == Cardinality(AcceptedColumns)

\* sourceModel().index(row, column) of the reorder proxy's source
sourceIndex(row, column) ==
    IF 0 <= row /\ row < sourceRowCount /\ 0 <= column /\ column < sourceColumnCount
    THEN createIndex(row, column)
    ELSE InvalidIndex

----------------------------------------------------------------------------
(* The record of the last call *)

NoData == [has_format |-> FALSE, decoded |-> <<>>]

NoCall ==
    [op |-> "none", ret |-> "none", idx |-> InvalidIndex, arg |-> InvalidIndex,
     action |-> "none", row |-> 0 - 1, column |-> 0 - 1, drag |-> <<>>,
     pre_order |-> <<>>, pre_rows |-> <<>>, data |-> NoData]

----------------------------------------------------------------------------
(* DragDropReorderProxy: the pure part of each method *)

\* a variant that keeps the order when the row count did not change
_reset_mapping_keeps_order(source_row_count) ==
    IF Len(_row_order) = source_row_count THEN _row_order ELSE range(source_row_count)

\* _reset_mapping: list(range(self.sourceModel().rowCount()))
_reset_mapping(source_row_count) == range(source_row_count)

rowCount == Len(_row_order)

columnCount == sourceColumnCount

\* a variant with the row bound off by one
index_row_off_by_one(row, column, parent) ==
    IF parent.valid
    THEN InvalidIndex
    ELSE IF 0 <= row /\ row <= Len(_row_order) /\ 0 <= column /\ column < sourceColumnCount
         THEN createIndex(row, column)
         ELSE InvalidIndex

index(row, column, parent) ==
    IF parent.valid
    THEN InvalidIndex
    ELSE IF 0 <= row /\ row < rowCount /\ 0 <= column /\ column < columnCount
         THEN createIndex(row, column)
         ELSE InvalidIndex

parent(idx) == InvalidIndex

mapToSource(proxy_index) ==
    IF ~proxy_index.valid
    THEN InvalidIndex
    ELSE sourceIndex(_row_order[proxy_index.row + 1], proxy_index.column)

\* a variant that reads the forward mapping instead of searching it
mapFromSource_forward(source_index) ==
    IF ~source_index.valid
    THEN InvalidIndex
    ELSE IF source_index.row >= Len(_row_order)
         THEN InvalidIndex
         ELSE index(_row_order[source_index.row + 1], source_index.column, InvalidIndex)

mapFromSource(source_index) ==
    IF ~source_index.valid
    THEN InvalidIndex
    ELSE LET at == ListIndex(_row_order, source_index.row)
         IN  IF ~at.found
             THEN InvalidIndex
             ELSE index(at.at, source_index.column, InvalidIndex)

\* a variant that pops the dragged row and never inserts it again
dropMimeData_loses_row(order, drag, action, row, parent_index) ==
    IF action # "MoveAction" \/ drag = <<>>
    THEN [ret |-> "False", order |-> order]
    ELSE LET popped == ListPop(order, drag[1])
         IN  IF ~popped.ok
             THEN [ret |-> "IndexError", order |-> order]
             ELSE [ret |-> "True", order |-> popped.rest]

\* a variant where the attribute always exists (initialised to row 0)
dropMimeData_no_hasattr(order, drag, action, row, parent_index) ==
    IF action # "MoveAction"
    THEN [ret |-> "False", order |-> order]
    ELSE LET target == IF row = 0 - 1 /\ parent_index.valid THEN parent_index.row
                       ELSE IF row = 0 - 1 THEN Len(order)
                       ELSE row
             popped == ListPop(order, IF drag = <<>> THEN 0 ELSE drag[1])
         IN  IF ~popped.ok
             THEN [ret |-> "IndexError", order |-> order]
             ELSE [ret |-> "True",
                   order |-> ListInsert(popped.rest, SeqMin(target, Len(popped.rest)),
                                        popped.val)]

\* a variant that treats a drop onto an item like a drop onto the empty area
dropMimeData_ignores_parent(order, drag, action, row, parent_index) ==
    IF action # "MoveAction" \/ drag = <<>>
    THEN [ret |-> "False", order |-> order]
    ELSE LET target == IF row = 0 - 1 THEN Len(order) ELSE row
             popped == ListPop(order, drag[1])
         IN  IF ~popped.ok
             THEN [ret |-> "IndexError", order |-> order]
             ELSE [ret |-> "True",
                   order |-> ListInsert(popped.rest, SeqMin(target, Len(popped.rest)),
                                        popped.val)]

\* dropMimeData: the value returned (or the exception raised) and the new _row_order
dropMimeData(order, drag, action, row, parent_index) ==
    IF action # "MoveAction"
    THEN [ret |-> "False", order |-> order]
    ELSE LET target == IF row = 0 - 1 /\ parent_index.valid THEN parent_index.row
                       ELSE IF row = 0 - 1 THEN Len(order)
                       ELSE row
         IN  IF drag = <<>>
             THEN [ret |-> "False", order |-> order]
             ELSE LET popped == ListPop(order, drag[1])
                  IN  IF ~popped.ok
                      THEN [ret |-> "IndexError", order |-> order]
                      ELSE [ret |-> "True",
                            order |-> ListInsert(popped.rest,
                                                 SeqMin(target, Len(popped.rest)),
                                                 popped.val)]

\* mimeData: the dragged row recorded
mimeData(drag, indexes) == IF indexes # <<>> THEN <<indexes[1].row>> ELSE drag

----------------------------------------------------------------------------
(* The indexes a view can hold in the current state *)

ProxyIndexes == {createIndex(r, c) : r \in 0..(rowCount - 1), c \in 0..(columnCount - 1)}

SourceIndexes ==
    {createIndex(r, c) : r \in 0..(sourceRowCount - 1), c \in 0..(sourceColumnCount - 1)}

----------------------------------------------------------------------------
(* The source model as the reorder proxy observes it: every rowsInserted,   *)
(* rowsRemoved and modelReset signal runs _reset_mapping, once connected.   *)

Observed(new_rows) == IF attached THEN _reset_mapping(Len(new_rows)) ELSE _row_order

----------------------------------------------------------------------------
(* ItemModel *)

\* QStandardItemModel.insertRow(row, items) for 0 <= row <= rowCount()
insertRow(rs, row, items) == SubSeq(rs, 1, row) \o <<items>> \o SubSeq(rs, row + 1, Len(rs))

\* a variant that inserts every copied row at the target row itself
RECURSIVE insertCopiedRows_same_row(_, _, _, _)
insertCopiedRows_same_row(rs, row, copied_rows, i) ==
    IF i >= Len(copied_rows)
    THEN rs
    ELSE insertCopiedRows_same_row(insertRow(rs, row, copied_rows[i + 1]), row,
                                   copied_rows, i + 1)

\* for i, items in enumerate(copied_rows): self.insertRow(row + i, items)
RECURSIVE insertCopiedRows(_, _, _, _)
insertCopiedRows(rs, row, copied_rows, i) ==
    IF i >= Len(copied_rows)
    THEN rs
    ELSE insertCopiedRows(insertRow(rs, row + i, copied_rows[i + 1]), row, copied_rows, i + 1)

\* ItemModel.dropMimeData: the value returned and the new rows
ItemModel_drop(rs, data, action, row) ==
    IF action = "IgnoreAction"
    THEN [ret |-> "False", rows |-> rs]
    ELSE IF ~data.has_format
         THEN [ret |-> "False", rows |-> rs]
         ELSE LET target == IF row = 0 - 1 THEN Len(rs) ELSE row
              IN  [ret |-> "True", rows |-> insertCopiedRows(rs, target, data.decoded, 0)]

\* the payloads: with or without application/x-qstandarditemmodeldatalist, and the
\* rows the temporary model decodes from it
Payloads ==
    {NoData} \cup
    {[has_format |-> TRUE, decoded |-> d] : d \in UNION {[1..k -> Contents] : k \in 0..MaxPayload}}

\* ColumnFilterProxy.dropMimeData: the source column handed to the source model
ColumnFilterProxy_src_col(col) ==
    IF col # 0 - 1
    THEN IF 0 < sourceRowCount /\ 0 <= col /\ col < sourceColumnCount
         THEN CHOOSE c \in AcceptedColumns :
                  Cardinality({b \in AcceptedColumns : b < c}) = col
         ELSE 0 - 1
    ELSE 0 - 1

----------------------------------------------------------------------------
(* Initial state: the three models constructed, none connected yet *)

Init ==
    /\ rows = <<>>
    /\ _visible_columns = MainWindow_visible_columns
    /\ attached = FALSE
    /\ _row_order = <<>>
    /\ _current_drag_row = <<>>
    /\ last = NoCall

----------------------------------------------------------------------------------------------------------------------------------------
(* Changes of the source model *)

setSourceModel ==
    /\ attached' = TRUE
    /\ _row_order' = _reset_mapping(sourceRowCount)
    /\ last' = [NoCall EXCEPT !.op = "setSourceModel", !.pre_order = _row_order]
    /\ UNCHANGED <<rows, _visible_columns, _current_drag_row>>

appendRow(items) ==
    /\ Len(rows) < MaxRows
    /\ rows' = Append(rows, items)
    /\ _row_order' = Observed(rows')
    /\ last' = [NoCall EXCEPT !.op = "rowsInserted", !.pre_order = _row_order]
    /\ UNCHANGED <<_visible_columns, attached, _current_drag_row>>

removeRow(row) ==
    /\ 0 <= row /\ row < Len(rows)
    /\ rows' = SubSeq(rows, 1, row) \o SubSeq(rows, row + 2, Len(rows))
    /\ _row_order' = Observed(rows')
    /\ last' = [NoCall EXCEPT !.op = "rowsRemoved", !.pre_order = _row_order]
    /\ UNCHANGED <<_visible_columns, attached, _current_drag_row>>

modelReset(new_rows) ==
    /\ rows' = new_rows
    /\ _row_order' = Observed(rows')
    /\ last' = [NoCall EXCEPT !.op = "modelReset", !.pre_order = _row_order]
    /\ UNCHANGED <<_visible_columns, attached, _current_drag_row>>

\* the call of ItemModel.dropMimeData, made directly or by the column filter
sourceModel_dropMimeData(op, data, action, row, column, parent_index) ==
    /\ Len(rows) + Len(data.decoded) <= MaxRows
    /\ LET r == ItemModel_drop(rows, data, action, row)
       IN  /\ rows' = r.rows
           /\ _row_order' = IF rows' # rows THEN Observed(rows') ELSE _row_order
           /\ last' = [NoCall EXCEPT !.op = op, !.ret = r.ret, !.data = data,
                                     !.action = action, !.row = row, !.column = column,
                                     !.arg = parent_index, !.pre_rows = rows]
    /\ UNCHANGED <<_visible_columns, attached, _current_drag_row>>

ItemModel_dropMimeData(data, action, row, column, parent_index) ==
    sourceModel_dropMimeData("ItemModel.dropMimeData", data, action, row, column, parent_index)

ColumnFilterProxy_dropMimeData(data, action, row, col, parent_index) ==
    sourceModel_dropMimeData("ColumnFilterProxy.dropMimeData", data, action, row,
                             ColumnFilterProxy_src_col(col), parent_index)

----------------------------------------------------------------------------
(* DragDropReorderProxy, once a view uses it *)

DragDropReorderProxy_mimeData(indexes) ==
    /\ attached
    /\ _current_drag_row' = mimeData(_current_drag_row, indexes)
    /\ last' = [NoCall EXCEPT !.op = "mimeData", !.drag = _current_drag_row,
                              !.row = Len(indexes)]
    /\ UNCHANGED <<rows, _visible_columns, attached, _row_order>>

\* a variant that also hands the drop to the source model
DragDropReorderProxy_dropMimeData_forwards(data, action, row, column, parent_index) ==
    /\ attached
    /\ LET r == dropMimeData(_row_order, _current_drag_row, action, row, parent_index)
           f == ItemModel_drop(rows, data, action, IF row > Len(rows) THEN Len(rows) ELSE row)
       IN  /\ rows' = f.rows
           /\ _row_order' = r.order
           /\ last' = [NoCall EXCEPT !.op = "dropMimeData", !.ret = r.ret,
                                     !.action = action, !.row = row, !.arg = parent_index,
                                     !.drag = _current_drag_row,
                                     !.pre_order = _row_order, !.pre_rows = rows]
    /\ UNCHANGED <<_visible_columns, attached, _current_drag_row>>

DragDropReorderProxy_dropMimeData(data, action, row, column, parent_index) ==
    /\ attached
    /\ LET r == dropMimeData(_row_order, _current_drag_row, action, row, parent_index)
       IN  /\ _row_order' = r.order
           /\ last' = [NoCall EXCEPT !.op = "dropMimeData", !.ret = r.ret,
                                     !.action = action, !.row = row, !.arg = parent_index,
                                     !.drag = _current_drag_row,
                                     !.pre_order = _row_order, !.pre_rows = rows]
    /\ UNCHANGED <<rows, _visible_columns, attached, _current_drag_row>>

DragDropReorderProxy_index(row, column, parent_index) ==
    /\ attached
    /\ last' = [NoCall EXCEPT !.op = "index", !.row = row, !.column = column,
                              !.arg = parent_index, !.idx = index(row, column, parent_index)]
    /\ UNCHANGED <<rows, _visible_columns, attached, _row_order, _current_drag_row>>

DragDropReorderProxy_parent(idx) ==
    /\ attached
    /\ last' = [NoCall EXCEPT !.op = "parent", !.arg = idx, !.idx = parent(idx)]
    /\ UNCHANGED <<rows, _visible_columns, attached, _row_order, _current_drag_row>>

DragDropReorderProxy_mapToSource(proxy_index) ==
    /\ attached
    /\ last' = [NoCall EXCEPT !.op = "mapToSource", !.arg = proxy_index,
                              !.idx = mapToSource(proxy_index)]
    /\ UNCHANGED <<rows, _visible_columns, attached, _row_order, _current_drag_row>>

DragDropReorderProxy_mapFromSource(source_index) ==
    /\ attached
    /\ last' = [NoCall EXCEPT !.op = "mapFromSource", !.arg = source_index,
                              !.idx = mapFromSource(source_index)]
    /\ UNCHANGED <<rows, _visible_columns, attached, _row_order, _current_drag_row>>

ColumnFilterProxy_filterAcceptsColumn(source_column) ==
    /\ last' = [NoCall EXCEPT !.op = "filterAcceptsColumn", !.column = source_column,
                              !.ret = IF filterAcceptsColumn(source_column)
                                      THEN "True" ELSE "False"]
    /\ UNCHANGED <<rows, _visible_columns, attached, _row_order, _current_drag_row>>

----------------------------------------------------------------------------
(* The inputs *)

RowArgs == (0 - 1)..(MaxRows + 1)

\* a drop between rows (row >= 0, on the root or on an item) or onto an item or the
\* empty area (row = -1)
DropTargets ==
    {<<row, InvalidIndex>> : row \in RowArgs}
        \cup {<<0 - 1, createIndex(r, 0)>> : r \in 0..(rowCount - 1)}
        \cup {<<row, createIndex(r, 0)>> : row \in 0..1, r \in 0..SeqMin(0, rowCount - 1)}

\* index() is asked for rows and columns around both ends of the valid range
IndexRowArgs == (0 - 1)..MaxRows

IndexColumnArgs == (0 - 1)..columnCount

IndexParentArgs == {InvalidIndex} \cup {createIndex(r, 0) : r \in 0..SeqMin(0, rowCount - 1)}

\* the view selects single rows: no index, or the indexes of one row, column by column
DragLists ==
    {<<>>} \cup {[c \in 1..n |-> createIndex(r, c - 1)] :
                     r \in 0..(rowCount - 1), n \in 1..columnCount}

\* what a view drops on the reorder proxy: a payload without or with the item format,
\* at no column or at column 0
DragPayloads == {<<NoData, 0 - 1>>, <<[has_format |-> TRUE, decoded |-> <<"a">>], 0>>}

SourceParentArgs == {InvalidIndex} \cup {createIndex(r, 0) : r \in 0..SeqMin(0, Len(rows) - 1)}

RowLists(contents) == UNION {[1..n -> contents] : n \in 0..MaxRows}

\* the source model changes, its rows holding any of the given contents
SourceChange(contents) ==
    \/ setSourceModel
    \/ \E items \in contents : appendRow(items)
    \/ \E row \in 0..(MaxRows - 1) : removeRow(row)
    \/ \E new_rows \in RowLists(contents) : modelReset(new_rows)

DragAndDrop ==
    \/ \E indexes \in DragLists : DragDropReorderProxy_mimeData(indexes)
    \/ \E payload \in DragPayloads, action \in DropActions, target \in DropTargets :
           DragDropReorderProxy_dropMimeData(payload[1], action, target[1], payload[2],
                                             target[2])

Queries ==
    \/ \E row \in IndexRowArgs, column \in IndexColumnArgs, p \in IndexParentArgs :
           DragDropReorderProxy_index(row, column, p)
    \/ \E idx \in {InvalidIndex} \cup ProxyIndexes : DragDropReorderProxy_parent(idx)
    \/ \E proxy_index \in {InvalidIndex} \cup ProxyIndexes :
           DragDropReorderProxy_mapToSource(proxy_index)
    \/ \E source_index \in {InvalidIndex} \cup SourceIndexes :
           DragDropReorderProxy_mapFromSource(source_index)
    \/ \E source_column \in 0..(ModelColumns - 1) :
           ColumnFilterProxy_filterAcceptsColumn(source_column)

SourceDrop ==
    \/ \E data \in Payloads, action \in DropActions, row \in (0 - 1)..Len(rows),
          column \in {0 - 1, 0}, p \in SourceParentArgs :
           ItemModel_dropMimeData(data, action, row, column, p)
    \/ \E data \in Payloads, action \in DropActions, row \in (0 - 1)..Len(rows),
          col \in {0 - 1, 1}, p \in SourceParentArgs :
           ColumnFilterProxy_dropMimeData(data, action, row, col, p)

\* the reorder proxy under drags, drops and changes of its source
Next == SourceChange(Contents) \/ DragAndDrop

Spec == Init /\ [][Next]_vars

\* the same with the view's queries, which never read a row's content
NextViews == SourceChange({"a"}) \/ DragAndDrop \/ Queries

SpecViews == Init /\ [][NextViews]_vars

\* the item model under drops, directly and through the column filter
NextItemModel == SourceChange(Contents) \/ SourceDrop

SpecItemModel == Init /\ [][NextItemModel]_vars

----------------------------------------------------------------------------
(* Properties *)

\* order without its element at 0-based position pos
Without(order, pos) == SubSeq(order, 1, pos) \o SubSeq(order, pos + 2, Len(order))

Identity(order) == \A k \in 1..Len(order) : order[k] = k - 1

SourceChangeOps == {"setSourceModel", "rowsInserted", "rowsRemoved", "modelReset"}

\* C1: once setSourceModel has run, _row_order holds every source row 0..n-1 exactly
\* once and nothing else, so the proxy's rowCount() is the source's rowCount().
C1_RowOrderIsPermutation ==
    attached =>
        /\ rowCount = sourceRowCount
        /\ \A k \in 1..Len(_row_order) : _row_order[k] \in 0..(sourceRowCount - 1)
        /\ \A s \in 0..(sourceRowCount - 1) :
               Cardinality({k \in 1..Len(_row_order) : _row_order[k] = s}) = 1

\* C1 witness: a successful drop has reordered three rows
C1_Witness ==
    /\ attached
    /\ last.op = "dropMimeData" /\ last.ret = "True"
    /\ Len(_row_order) = 3 /\ ~Identity(_row_order)

\* C2: dropMimeData returns False and leaves _row_order alone when the action is not
\* MoveAction and when no drag row was ever recorded (mimeData records one exactly
\* when its index list is not empty); it returns True only for a MoveAction with a
\* recorded drag row.
C2_DropRefusedWithoutMoveOrDrag ==
    /\ last.op = "dropMimeData" =>
           /\ (last.action # "MoveAction" \/ last.drag = <<>>) =>
                  (last.ret = "False" /\ _row_order = last.pre_order)
           /\ last.ret = "True" => (last.action = "MoveAction" /\ last.drag # <<>>)
    /\ last.op = "mimeData" =>
           IF last.row = 0 THEN _current_drag_row = last.drag ELSE _current_drag_row # <<>>

\* C2 witness: a MoveAction drop on two rows or more with no drag row recorded
C2_Witness ==
    /\ last.op = "dropMimeData" /\ last.action = "MoveAction" /\ last.drag = <<>>
    /\ last.ret = "False" /\ Len(_row_order) >= 2

\* C3 (as claimed): whenever dropMimeData pops, the recorded drag row is a position of
\* _row_order, so the drop never ends in a failure.
C3_DragRowValidWhenPopped ==
    (last.op = "dropMimeData" /\ last.action = "MoveAction" /\ last.drag # <<>>) =>
        /\ 0 <= last.drag[1] /\ last.drag[1] < Len(last.pre_order)
        /\ last.ret # "IndexError"

\* C4: a drop on the proxy, accepted or not, leaves the source model's rows, their
\* contents and their order as they were, and the proxy's rowCount() too.
C4_DropLeavesSourceAlone ==
    last.op = "dropMimeData" =>
        /\ rows = last.pre_rows
        /\ Len(_row_order) = Len(last.pre_order)

\* C4 witness: an accepted drop that changed the proxy's order, with payload or without
C4_Witness ==
    /\ last.op = "dropMimeData" /\ last.ret = "True"
    /\ _row_order # last.pre_order /\ Len(rows) >= 2

\* C5 (as claimed): in MainWindow's configuration filterAcceptsColumn accepts the
\* source columns 0 and 2 and rejects column 1.
C5_Columns0And2Accepted ==
    last.op = "filterAcceptsColumn" =>
        last.ret = IF last.column \in {0, 2} THEN "True" ELSE "False"

\* C6: mapToSource and mapFromSource are inverse to each other on the valid indexes of
\* the proxy and of the source, and mapFromSource finds every source row.
C6_MappingsAreInverse ==
    attached =>
        /\ \A pi \in ProxyIndexes : mapFromSource(mapToSource(pi)) = pi
        /\ \A si \in SourceIndexes :
               /\ mapFromSource(si).valid
               /\ mapToSource(mapFromSource(si)) = si
        /\ (last.op = "mapFromSource" /\ last.arg.valid) =>
               (last.idx.valid /\ mapToSource(last.idx) = last.arg)
        /\ (last.op = "mapToSource" /\ last.arg.valid) =>
               (last.idx.valid /\ mapFromSource(last.idx) = last.arg)

\* C6 witness: mapFromSource was asked for a source row that a drop had moved
C6_Witness ==
    /\ last.op = "mapFromSource" /\ last.arg.valid
    /\ last.idx.valid /\ last.idx.row # last.arg.row
    /\ Len(_row_order) = 3

\* the target row of the claim: the row argument, the parent's row, or n
C7_Target(row, parent_index, n) ==
    IF row # 0 - 1 THEN row ELSE IF parent_index.valid THEN parent_index.row ELSE n

\* C7: a successful drop with drag row d (0 <= d < n) and target t puts the row that
\* was at position d at position min(t, n-1), keeps the other rows in their order, and
\* changes nothing when t = d.
C7_DropMovesOneRow ==
    (/\ last.op = "dropMimeData" /\ last.ret = "True"
     /\ 0 <= last.drag[1] /\ last.drag[1] < Len(last.pre_order)) =>
        LET n == Len(last.pre_order)
            d == last.drag[1]
            t == C7_Target(last.row, last.arg, n)
            pos == SeqMin(t, n - 1)
        IN  /\ Len(_row_order) = n
            /\ _row_order[pos + 1] = last.pre_order[d + 1]
            /\ Without(_row_order, pos) = Without(last.pre_order, d)
            /\ (t = d => _row_order = last.pre_order)

\* C7 witness: a drop onto an item moved a row of three to that item's position
C7_Witness ==
    /\ last.op = "dropMimeData" /\ last.ret = "True"
    /\ last.row = 0 - 1 /\ last.arg.valid
    /\ Len(last.pre_order) = 3 /\ last.drag[1] < 3
    /\ _row_order # last.pre_order

\* C8: right after every change of the source model that the proxy observes,
\* _row_order is [0, 1, ..., sourceRowCount-1], whatever earlier drops made of it, and
\* proxy row r maps to source row r; a drop that does not succeed keeps the mapping.
C8_SourceChangeResetsMapping ==
    /\ (attached /\ last.op \in SourceChangeOps) =>
           /\ Len(_row_order) = sourceRowCount
           /\ Identity(_row_order)
           /\ \A pi \in ProxyIndexes : mapToSource(pi) = pi
    /\ (last.op = "dropMimeData" /\ last.ret # "True") => _row_order = last.pre_order

\* C8 witness: a model reset that kept the row count discarded a reordering
C8_Witness ==
    /\ attached /\ last.op = "modelReset"
    /\ Len(last.pre_order) = 3 /\ ~Identity(last.pre_order)
    /\ Len(_row_order) = 3

\* C9: index() is valid, carrying (row, column), exactly for an invalid parent and a
\* row and column in range; parent() is never valid; both mappings map the invalid
\* index to the invalid index.
C9_InvalidRequestsGetInvalidIndex ==
    /\ last.op = "index" =>
           IF /\ ~last.arg.valid
              /\ 0 <= last.row /\ last.row < rowCount
              /\ 0 <= last.column /\ last.column < columnCount
           THEN last.idx = [valid |-> TRUE, row |-> last.row, column |-> last.column]
           ELSE ~last.idx.valid
    /\ last.op = "parent" => ~last.idx.valid
    /\ (last.op \in {"mapToSource", "mapFromSource"} /\ ~last.arg.valid) => ~last.idx.valid

\* C9 witness: index() was asked for the row just past the last one of a full model
C9_Witness ==
    /\ last.op = "index" /\ ~last.arg.valid
    /\ last.row = rowCount /\ rowCount >= 2
    /\ last.column = 0 /\ ~last.idx.valid

====
